---- MODULE Spec2Model ----
(***************************************************************************)
(* AutoGenSubTitle: the orchestration logic of gen_subs_EN_v1.1.py.        *)
(*                                                                         *)
(* One run of main() is a sequential program: input check, configuration   *)
(* resolution (flags, prompts, defaults), output folder creation, start    *)
(* confirmation, tool check, process_video (skip logic, ffmpeg, whisper,   *)
(* relocation of whisper outputs, cleanup, language detection), the move   *)
(* of the source video and the final report.                               *)
(*                                                                         *)
(* File names are sequences of tokens in which "." is a token of its own,  *)
(* so that pathlib's stem / suffix / with_suffix are computed as pathlib   *)
(* computes them.  A path is <<dir, name>>: dir is <<>> for the working    *)
(* directory and the name of a sub-directory of it otherwise.              *)
(*                                                                         *)
(* The external tools are the environment: an exit code is any of 0 and 1, *)
(* a successful ffmpeg has written its output file, a successful whisper   *)
(* has written its five outputs into the working directory.  A file move   *)
(* or delete may fail, at most MaxFaults times per run.                    *)
(***************************************************************************)
EXTENDS Integers, Sequences, FiniteSets, TLC

VARIABLES
    pc,              \* position of main()
    exit_code,       \* -1 while running, else the process exit code
    args,            \* argparse namespace (line 269)
    isatty,          \* sys.stdin.isatty()
    fs,              \* files: path -> content tag
    dirs,            \* existing sub-directories of the working directory
    fs0,             \* files at process start
    dirs0,           \* directories at process start
    model,           \* main() locals; a placeholder until named in bound
    language,
    out_dir,
    clean_wav,
    overwrite,
    skip_if_exists,
    translate_to_en,
    whisper_ok,      \* process_video local
    detected,        \* process_video local
    result,          \* RunResult returned by process_video
    reported,        \* fields of the final summary
    events,          \* side effects and prompts, in order
    cmds,            \* external commands started, in order
    returncodes,     \* their exit codes, in the same order
    faults,          \* file operations that failed so far
    tools,           \* what check_tools() returned
    bound,           \* the locals of main() and process_video() assigned so far
    history,         \* one summary per earlier run of the program on these files
    twin             \* gen_subs.py and gen_subs_EN.py given the same inputs: inputs and outcomes

vars == <<pc, exit_code, args, isatty, fs, dirs, fs0, dirs0, model, language,
          out_dir, clean_wav, overwrite, skip_if_exists, translate_to_en,
          whisper_ok, detected, result, reported, events, cmds, returncodes,
          faults, tools, bound, history, twin>>

----------------------------------------------------------------------------
(* Bounds and input sets *)

MaxFaults == 1
MaxRuns == 2

None == "None"

\* No comparison of the two files of the first version is under way.
IdleTwin == [started |-> FALSE]
Unset == "unset"
EOF == "EOF"
Cwd == <<>>
Dot == "."

Stems == { <<"demo">>, <<"my", Dot, "video">> }
VideoSuffix == <<Dot, "mp4">>

MODELS == <<"tiny", "base", "small", "medium", "large">>
WHISPER_EXTS == << <<Dot, "srt">>, <<Dot, "json">>, <<Dot, "tsv">>,
                   <<Dot, "txt">>, <<Dot, "vtt">> >>

ModelFlags == {None, "tiny"}
LanguageFlags == {None, "fr", ""}
ModelAnswers == {"", "2"}
LanguageAnswers == {"", "es"}
FolderAnswers == { <<>>, <<"subs">> }
YesNoAnswers == {"", "y", "n"}

JsonTags == {"json_unreadable", "json_invalid", "json_array", "json_empty_object",
             "json_language_fr", "json_legacy_de", "json_language_null"}

----------------------------------------------------------------------------
(* pathlib on token sequences *)

RECURSIVE rfind(_, _)
rfind(name, i) ==
    IF i = 0 THEN 0
    ELSE IF name[i] = Dot THEN i ELSE rfind(name, i - 1)

suffix(name) ==
    LET i == rfind(name, Len(name))
    IN  IF 1 < i /\ i < Len(name) THEN SubSeq(name, i, Len(name)) ELSE <<>>

stem(name) ==
    LET i == rfind(name, Len(name))
    IN  IF 1 < i /\ i < Len(name) THEN SubSeq(name, 1, i - 1) ELSE name

with_suffix(path, sfx) == <<path[1], stem(path[2]) \o sfx>>

Join(dir, name) == <<dir, name>>

StrPath(path) == IF path[1] = Cwd THEN path[2] ELSE path[1] \o <<"/">> \o path[2]

----------------------------------------------------------------------------
(* file system *)

Exists(f, path) == path \in DOMAIN f

Put(f, path, content) ==
    [q \in DOMAIN f \cup {path} |-> IF q = path THEN content ELSE f[q]]

Remove(f, path) == [q \in DOMAIN f \ {path} |-> f[q]]

\* Faulty variant: the file is copied to its destination and the source stays.
Rename_Copy(f, src, dest) ==
    IF src = dest THEN f ELSE Put(f, dest, f[src])

Rename(f, src, dest) ==
    IF src = dest THEN f ELSE Put(Remove(f, src), dest, f[src])

----------------------------------------------------------------------------
(* prompts *)

Append1(seq, e) == seq \o <<e>>

\* yes_no and ask_choice ask again on any other answer; the answer sets above
\* hold the answers that end the loop, so the last ELSE is never taken.
yes_no(resp, default) ==
    IF resp = "" THEN default
    ELSE IF resp \in {"y", "yes", "o", "oui"} THEN TRUE
    ELSE IF resp \in {"n", "no"} THEN FALSE
    ELSE default

Digits == <<"1", "2", "3", "4", "5">>
isdigit(resp) == \E k \in 1..Len(Digits) : Digits[k] = resp
int(resp) == CHOOSE k \in 1..Len(Digits) : Digits[k] = resp

ask_choice(options, default, resp) ==
    IF resp = "" THEN default
    ELSE IF isdigit(resp) /\ int(resp) - 1 >= 0 /\ int(resp) - 1 < Len(options)
         THEN options[int(resp)]
    ELSE IF \E k \in 1..Len(options) : options[k] = resp THEN resp
    ELSE default

----------------------------------------------------------------------------
(* companion JSON *)

Truthy(x) == x \notin {None, ""}
Or(a, b) == IF Truthy(a) THEN a ELSE b

\* json.load of a file's content: raises on anything that is not JSON text.
json_load(content) ==
    CASE content = "json_array"         -> [raised |-> FALSE, is_dict |-> FALSE,
                                            language |-> None, language_detected |-> None]
      [] content = "json_empty_object"  -> [raised |-> FALSE, is_dict |-> TRUE,
                                            language |-> None, language_detected |-> None]
      [] content = "json_language_null" -> [raised |-> FALSE, is_dict |-> TRUE,
                                            language |-> None, language_detected |-> None]
      [] content = "json_language_fr"   -> [raised |-> FALSE, is_dict |-> TRUE,
                                            language |-> "fr", language_detected |-> None]
      [] content = "json_language_en"   -> [raised |-> FALSE, is_dict |-> TRUE,
                                            language |-> "en", language_detected |-> None]
      [] content = "json_legacy_de"     -> [raised |-> FALSE, is_dict |-> TRUE,
                                            language |-> None, language_detected |-> "de"]
      [] OTHER                          -> [raised |-> TRUE, is_dict |-> FALSE,
                                            language |-> None, language_detected |-> None]

\* Lines 200-202: open, json.load, data.get(...) or data.get(...) or None.
read_language(f, json_path) ==
    IF f[json_path] = "json_unreadable"
    THEN [raised |-> TRUE, value |-> None]
    ELSE LET data == json_load(f[json_path])
         IN  IF data.raised \/ ~data.is_dict
             THEN [raised |-> TRUE, value |-> None]
             ELSE [raised |-> FALSE,
                   value |-> Or(Or(data.language, data.language_detected), None)]

\* Faulty variant: no except clause, what the try block raises propagates.
find_detected_language_Uncaught(f, srt_base) ==
    LET json_path == with_suffix(srt_base, <<Dot, "json">>)
    IN  IF ~Exists(f, json_path) THEN [raised |-> FALSE, value |-> None]
        ELSE read_language(f, json_path)

find_detected_language(f, srt_base) ==
    LET json_path == with_suffix(srt_base, <<Dot, "json">>)
    IN  IF ~Exists(f, json_path) THEN [raised |-> FALSE, value |-> None]
        ELSE LET r == read_language(f, json_path)
             IN  IF r.raised THEN [raised |-> FALSE, value |-> None]   \* except Exception
                 ELSE r

----------------------------------------------------------------------------
(* external commands *)

Str(s) == <<s>>

ffmpeg_cmd(video_path, wav_path) ==
    << Str("ffmpeg"), Str("-hide_banner"), Str("-loglevel"), Str("error"),
       Str("-i"), StrPath(video_path),
       Str("-ar"), Str("16000"), Str("-ac"), Str("1"),
       Str("-c:a"), Str("pcm_s16le"),
       StrPath(wav_path) >>

\* Faulty variant: the language is tested against None instead of for truth.
whisper_cmd_LanguageNotNone(wav_path, mdl, lang, translate) ==
    LET task == IF translate THEN "translate" ELSE "transcribe"
        cmd  == << Str("whisper"), StrPath(wav_path), Str("--model"), Str(mdl),
                   Str("--task"), Str(task) >>
    IN  IF lang # None THEN cmd \o << Str("--language"), Str(lang) >> ELSE cmd

whisper_cmd(wav_path, mdl, lang, translate) ==
    LET task == IF translate THEN "translate" ELSE "transcribe"
        cmd  == << Str("whisper"), StrPath(wav_path), Str("--model"), Str(mdl),
                   Str("--task"), Str(task) >>
    IN  IF Truthy(lang) THEN cmd \o << Str("--language"), Str(lang) >> ELSE cmd

\* The files whisper writes: <working directory>/<audio stem><ext>.
whisper_output(wav_path, ext) == Join(Cwd, stem(wav_path[2]) \o ext)

WhisperContent(ext) == IF ext = <<Dot, "json">> THEN "json_language_en" ELSE "sub"

RECURSIVE WriteOutputs(_, _, _, _)
WriteOutputs(f, wav_path, written, k) ==
    IF k > Len(WHISPER_EXTS) THEN f
    ELSE LET ext == WHISPER_EXTS[k]
             g   == IF ext \in written
                    THEN Put(f, whisper_output(wav_path, ext), WhisperContent(ext))
                    ELSE f
         IN  WriteOutputs(g, wav_path, written, k + 1)

ExtSet == {WHISPER_EXTS[k] : k \in 1..Len(WHISPER_EXTS)}
\* What a whisper process that ends with a non-zero code may have written.
PartialOutputs == { {}, {<<Dot, "srt">>} }

----------------------------------------------------------------------------
(* relocation *)

\* Faulty variant: no try around src.replace(dest), the first failure ends the loop.
RECURSIVE move_whisper_outputs_StopsAtFailure(_, _, _, _, _)
move_whisper_outputs_StopsAtFailure(f, video_base, target_dir, failing, k) ==
    IF k > Len(WHISPER_EXTS) THEN f
    ELSE LET ext  == WHISPER_EXTS[k]
             src  == Join(Cwd, stem(video_base[2]) \o ext)
             dest == Join(target_dir, src[2])
         IN  IF Exists(f, src) /\ ext \in failing THEN f
             ELSE move_whisper_outputs_StopsAtFailure(
                      IF Exists(f, src) THEN Rename(f, src, dest) ELSE f,
                      video_base, target_dir, failing, k + 1)

\* Lines 163-173.  failing: the extensions whose src.replace(dest) raises.
RECURSIVE move_whisper_outputs(_, _, _, _, _)
move_whisper_outputs(f, video_base, target_dir, failing, k) ==
    IF k > Len(WHISPER_EXTS) THEN f
    ELSE LET ext  == WHISPER_EXTS[k]
             src  == Join(Cwd, stem(video_base[2]) \o ext)
             dest == Join(target_dir, src[2])
             g    == IF Exists(f, src) /\ ext \notin failing
                     THEN Rename(f, src, dest)
                     ELSE f
         IN  move_whisper_outputs(g, video_base, target_dir, failing, k + 1)

RelocationSources(f, video_base) ==
    { ext \in ExtSet : Exists(f, Join(Cwd, stem(video_base[2]) \o ext)) }

\* Lines 181-186.
RECURSIVE free_candidate(_, _, _, _, _)
free_candidate(f, target_dir, base, sfx, i) ==
    LET candidate == Join(target_dir, base \o <<"_", ToString(i)>> \o sfx)
    IN  IF ~Exists(f, candidate) THEN candidate
        ELSE free_candidate(f, target_dir, base, sfx, i + 1)

\* Faulty variant: no collision avoidance, the destination is always <dir>/<name>.
video_dest_SameName(f, video, target_dir) == Join(target_dir, video[2])

\* Faulty variant: the numbering of the candidates starts at 0.
video_dest_FromZero(f, video, target_dir) ==
    LET dest == Join(target_dir, video[2])
    IN  IF Exists(f, dest)
        THEN free_candidate(f, target_dir, stem(video[2]), suffix(video[2]), 0)
        ELSE dest

\* Lines 176-186: the destination move_video_into_dir settles on.
video_dest(f, video, target_dir) ==
    LET dest == Join(target_dir, video[2])
    IN  IF Exists(f, dest)
        THEN free_candidate(f, target_dir, stem(video[2]), suffix(video[2]), 1)
        ELSE dest

----------------------------------------------------------------------------
(* initial states: the command line, the terminal, the files already there *)

EmptyFs == [q \in {} |-> ""]

Seed(f, present, path, content) == IF present THEN Put(f, path, content) ELSE f

VideoName(st) == st \o VideoSuffix

\* The files that may already lie in the default output folder <cwd>/<stem>,
\* and a transcript an earlier whisper left in the working directory.
SeedFs(video, video_there, srt0, json0, wav0, same_name, first_candidate, cwd_txt) ==
    LET st  == stem(video[2])
        f1  == Seed(EmptyFs, video_there, video, "video")
        f2  == Seed(f1, srt0, Join(st, st \o <<Dot, "srt">>), "old")
        f3  == Seed(f2, json0 # None, Join(st, st \o <<Dot, "json">>), json0)
        f4  == Seed(f3, wav0, Join(st, st \o <<Dot, "wav">>), "old")
        f5  == Seed(f4, same_name, Join(st, video[2]), "old")
        f6  == Seed(f5, cwd_txt, Join(Cwd, st \o <<Dot, "txt">>), "old")
    IN  Seed(f6, first_candidate,
             Join(st, st \o <<"_", "1">> \o suffix(video[2])), "old")

DirsOf(f) == { path[1] : path \in DOMAIN f } \ {Cwd}

\* The whole command line and both kinds of terminal, few files already there.
InitConfig ==
    /\ isatty \in BOOLEAN
    /\ \E st \in Stems :
         LET video == Join(Cwd, VideoName(st))
         IN  /\ args \in [video : {video}, model : ModelFlags, language : LanguageFlags,
                          translate_to_en : BOOLEAN, no_clean : BOOLEAN,
                          no_overwrite : BOOLEAN, no_skip : BOOLEAN]
             /\ \E video_there, srt0, dir_there \in BOOLEAN :
                  /\ srt0 => video_there
                  /\ fs = SeedFs(video, video_there, srt0, None, FALSE, FALSE, FALSE, FALSE)
                  /\ dirs = DirsOf(fs) \cup (IF dir_there THEN {st} ELSE {})

\* Every combination of files already there, for a non-interactive command
\* line that names the model and the language.
InitFiles ==
    /\ isatty = FALSE
    /\ \E st \in Stems, in_out \in BOOLEAN :
         LET video == Join(IF in_out THEN st ELSE Cwd, VideoName(st))
         IN  /\ args \in [video : {video}, model : {"tiny"}, language : {"fr"},
                          translate_to_en : {FALSE}, no_clean : BOOLEAN,
                          no_overwrite : BOOLEAN, no_skip : BOOLEAN]
             /\ \E srt0, wav0, same_name, first_candidate, cwd_txt \in BOOLEAN,
                   json0 \in JsonTags \cup {None} :
                  /\ same_name => ~in_out
                  /\ first_candidate => (same_name \/ in_out)
                  /\ cwd_txt => (srt0 /\ wav0 /\ json0 = None /\ ~in_out /\ ~same_name)
                  /\ fs = SeedFs(video, TRUE, srt0, json0, wav0,
                                 same_name, first_candidate, cwd_txt)
                  /\ dirs = DirsOf(fs)

Init ==
    /\ pc = "start"
    /\ exit_code = -1
    /\ (InitConfig \/ InitFiles)
    /\ fs0 = fs
    /\ dirs0 = dirs
    /\ model = Unset
    /\ language = Unset
    /\ out_dir = <<>>
    /\ clean_wav = FALSE
    /\ overwrite = FALSE
    /\ skip_if_exists = FALSE
    /\ translate_to_en = FALSE
    /\ whisper_ok = FALSE
    /\ detected = Unset
    /\ result = [video |-> args.video, wav |-> args.video, srt |-> args.video,
                 detected_language |-> Unset, whisper_succeeded |-> FALSE]
    /\ reported = [srt_exists |-> FALSE, detected_language |-> Unset,
                   whisper_succeeded |-> FALSE, video |-> args.video]
    /\ bound = {}
    /\ events = <<>>
    /\ cmds = <<>>
    /\ returncodes = <<>>
    /\ faults = 0
    /\ tools = [ffmpeg |-> FALSE, whisper |-> FALSE]
    /\ history = <<>>
    /\ twin = IdleTwin

----------------------------------------------------------------------------
(* main(), lines 278-350: input check and configuration *)

Exit(code) ==
    /\ pc' = "exit"
    /\ exit_code' = code

\* Faulty variant: the existence of the source file is never looked at.
CheckVideo_Unchecked ==
    /\ pc = "start"
    /\ pc' = "model"
    /\ UNCHANGED <<exit_code, args, isatty, fs, dirs, fs0, dirs0, model, language,
                   out_dir, clean_wav, overwrite, skip_if_exists, translate_to_en,
                   whisper_ok, detected, result, reported, events, cmds, returncodes,
                   faults, tools, bound, history, twin>>

\* Lines 279-282.
CheckVideo ==
    /\ pc = "start"
    /\ IF ~Exists(fs, args.video) THEN Exit(1)
       ELSE pc' = "model" /\ UNCHANGED exit_code
    /\ UNCHANGED history
    /\ UNCHANGED twin
    /\ UNCHANGED bound
    /\ UNCHANGED <<args, isatty, fs, dirs, fs0, dirs0, model, language, out_dir,
                   clean_wav, overwrite, skip_if_exists, translate_to_en,
                   whisper_ok, detected, result, reported, events, cmds, returncodes, faults, tools>>

\* Line 284: model = args.model or ask_choice(...).  input() raises EOFError on
\* a closed stdin, which the handler of line 416 turns into exit code 1.
ResolveModel ==
    /\ pc = "model"
    /\ IF Truthy(args.model)
       THEN /\ model' = args.model
            /\ pc' = "language"
            /\ UNCHANGED <<exit_code, events>>
       ELSE /\ events' = Append1(events, "prompt_model")
            /\ \E resp \in ModelAnswers \cup {EOF} :
                 IF resp = EOF
                 THEN Exit(1) /\ UNCHANGED model
                 ELSE /\ model' = ask_choice(MODELS, "small", resp)
                      /\ pc' = "language"
                      /\ UNCHANGED exit_code
    /\ UNCHANGED history
    /\ UNCHANGED twin
    /\ bound' = IF pc' = "exit" THEN bound ELSE bound \cup {"model"}
    /\ UNCHANGED <<args, isatty, fs, dirs, fs0, dirs0, language, out_dir,
                   clean_wav, overwrite, skip_if_exists, translate_to_en,
                   whisper_ok, detected, result, reported, cmds, returncodes, faults, tools>>

\* Lines 285-289.
ResolveLanguage ==
    /\ pc = "language"
    /\ IF args.language # None
       THEN /\ language' = args.language
            /\ pc' = "outdir"
            /\ UNCHANGED <<exit_code, events>>
       ELSE /\ events' = Append1(events, "prompt_language")
            /\ \E lang_input \in LanguageAnswers \cup {EOF} :
                 IF lang_input = EOF
                 THEN Exit(1) /\ UNCHANGED language
                 ELSE /\ language' = IF lang_input # "" THEN lang_input ELSE None
                      /\ pc' = "outdir"
                      /\ UNCHANGED exit_code
    /\ UNCHANGED history
    /\ UNCHANGED twin
    /\ bound' = IF pc' = "exit" THEN bound ELSE bound \cup {"language"}
    /\ UNCHANGED <<args, isatty, fs, dirs, fs0, dirs0, model, out_dir,
                   clean_wav, overwrite, skip_if_exists, translate_to_en,
                   whisper_ok, detected, result, reported, cmds, returncodes, faults, tools>>

\* Lines 292-298: the output folder and its creation.
ResolveOutDir ==
    /\ pc = "outdir"
    /\ IF ~isatty
       THEN /\ out_dir' = stem(args.video[2])
            /\ dirs' = dirs \cup {out_dir'}
            /\ events' = Append1(events, "mkdir")
            /\ pc' = "clean"
            /\ UNCHANGED exit_code
       ELSE \/ /\ Exit(1)                                   \* EOFError
               /\ events' = Append1(events, "prompt_folder")
               /\ UNCHANGED <<out_dir, dirs>>
            \/ \E name \in FolderAnswers \cup {args.video[1]} :  \* or the video's own folder
                 /\ out_dir' = IF name # <<>> THEN name ELSE stem(args.video[2])
                 /\ dirs' = dirs \cup {out_dir'}
                 /\ events' = events \o <<"prompt_folder", "mkdir">>
                 /\ pc' = "clean"
                 /\ UNCHANGED exit_code
    /\ UNCHANGED history
    /\ UNCHANGED twin
    /\ bound' = IF pc' = "exit" THEN bound ELSE bound \cup {"out_dir"}
    /\ UNCHANGED <<args, isatty, fs, fs0, dirs0, model, language,
                   clean_wav, overwrite, skip_if_exists, translate_to_en,
                   whisper_ok, detected, result, reported, cmds, returncodes, faults, tools>>

\* Lines 301-303.
ResolveClean ==
    /\ pc = "clean"
    /\ IF isatty
       THEN /\ events' = Append1(events, "prompt_clean")
            /\ \E resp \in YesNoAnswers \cup {EOF} :
                 IF resp = EOF
                 THEN Exit(1) /\ UNCHANGED <<clean_wav, overwrite, skip_if_exists>>
                 ELSE /\ clean_wav' = yes_no(resp, TRUE)
                      /\ overwrite' = ~args.no_overwrite
                      /\ skip_if_exists' = ~args.no_skip
                      /\ pc' = "translate"
                      /\ UNCHANGED exit_code
       ELSE /\ clean_wav' = ~args.no_clean
            /\ overwrite' = ~args.no_overwrite
            /\ skip_if_exists' = ~args.no_skip
            /\ pc' = "translate"
            /\ UNCHANGED <<exit_code, events>>
    /\ UNCHANGED history
    /\ UNCHANGED twin
    /\ bound' = IF pc' = "exit" THEN bound ELSE bound \cup {"clean_wav", "overwrite", "skip_if_exists"}
    /\ UNCHANGED <<args, isatty, fs, dirs, fs0, dirs0, model, language, out_dir,
                   translate_to_en, whisper_ok, detected, result, reported,
                   cmds, returncodes, faults, tools>>

\* Line 306.
ResolveTranslate ==
    /\ pc = "translate"
    /\ IF args.translate_to_en
       THEN /\ translate_to_en' = TRUE
            /\ pc' = "confirm"
            /\ UNCHANGED <<exit_code, events>>
       ELSE IF isatty
       THEN /\ events' = Append1(events, "prompt_translate")
            /\ \E resp \in YesNoAnswers \cup {EOF} :
                 IF resp = EOF
                 THEN Exit(1) /\ UNCHANGED translate_to_en
                 ELSE /\ translate_to_en' = yes_no(resp, FALSE)
                      /\ pc' = "confirm"
                      /\ UNCHANGED exit_code
       ELSE /\ translate_to_en' = FALSE
            /\ pc' = "confirm"
            /\ UNCHANGED <<exit_code, events>>
    /\ UNCHANGED history
    /\ UNCHANGED twin
    /\ bound' = IF pc' = "exit" THEN bound ELSE bound \cup {"translate_to_en"}
    /\ UNCHANGED <<args, isatty, fs, dirs, fs0, dirs0, model, language, out_dir,
                   clean_wav, overwrite, skip_if_exists, whisper_ok, detected,
                   result, reported, cmds, returncodes, faults, tools>>

\* Faulty variant: the refusal is logged but sys.exit(0) is missing.
Confirm_ContinuesAfterNo ==
    /\ pc = "confirm"
    /\ \E resp \in YesNoAnswers \cup {EOF} :
         IF resp = EOF
         THEN Exit(1) /\ events' = Append1(events, "prompt_start")
         ELSE /\ pc' = "tools"
              /\ events' = IF ~yes_no(resp, TRUE)
                           THEN events \o <<"prompt_start", "cancelled">>
                           ELSE Append1(events, "prompt_start")
              /\ UNCHANGED exit_code
    /\ UNCHANGED <<args, isatty, fs, dirs, fs0, dirs0, model, language, out_dir,
                   clean_wav, overwrite, skip_if_exists, translate_to_en, whisper_ok,
                   detected, result, reported, cmds, returncodes, faults, tools,
                   bound, history, twin>>

\* Lines 332-334.
Confirm ==
    /\ pc = "confirm"
    /\ \E resp \in YesNoAnswers \cup {EOF} :
         IF resp = EOF
         THEN Exit(1) /\ events' = Append1(events, "prompt_start")
         ELSE IF ~yes_no(resp, TRUE)
         THEN Exit(0) /\ events' = events \o <<"prompt_start", "cancelled">>
         ELSE /\ pc' = "tools"
              /\ events' = Append1(events, "prompt_start")
              /\ UNCHANGED exit_code
    /\ UNCHANGED history
    /\ UNCHANGED twin
    /\ UNCHANGED bound
    /\ UNCHANGED <<args, isatty, fs, dirs, fs0, dirs0, model, language, out_dir,
                   clean_wav, overwrite, skip_if_exists, translate_to_en,
                   whisper_ok, detected, result, reported, cmds, returncodes, faults, tools>>

\* Lines 336-350.
CheckTools ==
    /\ pc = "tools"
    /\ \E ffmpeg_ok, whisper_found \in BOOLEAN :
         /\ tools' = [ffmpeg |-> ffmpeg_ok, whisper |-> whisper_found]
         /\ IF ~(ffmpeg_ok /\ whisper_found) THEN Exit(1)
            ELSE pc' = "process" /\ UNCHANGED exit_code
    /\ UNCHANGED history
    /\ UNCHANGED twin
    /\ bound' = bound \cup {"tools"}
    /\ UNCHANGED <<args, isatty, fs, dirs, fs0, dirs0, model, language, out_dir,
                   clean_wav, overwrite, skip_if_exists, translate_to_en,
                   whisper_ok, detected, result, reported, events, cmds, returncodes, faults>>

----------------------------------------------------------------------------
(* process_video(), lines 210-257 *)

video_base == with_suffix(args.video, <<>>)                            \* line 221
wav == Join(out_dir, stem(args.video[2]) \o <<Dot, "wav">>)            \* line 222
srt == Join(out_dir, stem(args.video[2]) \o <<Dot, "srt">>)            \* line 223
srt_base == Join(out_dir, stem(args.video[2]))                         \* lines 229, 233, 256

RunResult(det, ok) ==
    [video |-> args.video, wav |-> wav, srt |-> srt,
     detected_language |-> det, whisper_succeeded |-> ok]

\* Faulty variant: the skip branch taken whenever the .srt exists, whatever the flags.
TakesSkipPath_IgnoringFlags(f, skip, over) ==
    Exists(f, srt)

\* Faulty variant: the second test, on the overwrite flag, is missing.
TakesSkipPath_SkipOnly(f, skip, over) ==
    Exists(f, srt) /\ skip

\* Lines 226-234: which branch the skip / overwrite logic takes.
TakesSkipPath(f, skip, over) ==
    Exists(f, srt) /\ (skip \/ ~over)

\* Faulty variant: the skip branch does not return, it falls through to the
\* relocation and cleanup at the end of process_video.
SkipCheck_FallsThrough ==
    /\ pc = "process"
    /\ IF TakesSkipPath(fs, skip_if_exists, overwrite)
       THEN /\ events' = Append1(events, "skip")
            /\ pc' = "relocate"
       ELSE /\ pc' = "extract"
            /\ UNCHANGED events
    /\ UNCHANGED <<exit_code, args, isatty, fs, dirs, fs0, dirs0, model, language,
                   out_dir, clean_wav, overwrite, skip_if_exists, translate_to_en,
                   whisper_ok, detected, result, reported, cmds, returncodes,
                   faults, tools, bound, history, twin>>

\* Lines 221-234.
SkipCheck ==
    /\ pc = "process"
    /\ IF TakesSkipPath(fs, skip_if_exists, overwrite)
       THEN LET d == find_detected_language(fs, srt_base)
            IN  IF d.raised
                THEN Exit(1) /\ UNCHANGED <<detected, result, events>>
                ELSE /\ detected' = d.value
                     /\ result' = RunResult(d.value, TRUE)
                     /\ events' = Append1(events, "skip")
                     /\ pc' = "finalize"
                     /\ UNCHANGED exit_code
       ELSE /\ pc' = "extract"
            /\ UNCHANGED <<exit_code, detected, result, events>>
    /\ UNCHANGED history
    /\ UNCHANGED twin
    /\ bound' = IF pc' = "finalize" THEN bound \cup {"detected", "result"} ELSE bound
    /\ UNCHANGED <<args, isatty, fs, dirs, fs0, dirs0, model, language, out_dir,
                   clean_wav, overwrite, skip_if_exists, translate_to_en,
                   whisper_ok, reported, cmds, returncodes, faults, tools>>

\* Faulty variant: the exit code of the subprocess is never looked at.
run_cmd_streamed_Unchecked(returncode) == FALSE

\* Lines 141-142: run_cmd_streamed raises RuntimeError on a non-zero exit code.
run_cmd_streamed(returncode) == returncode # 0

\* Lines 236-237; nothing in process_video catches what extract_audio raises.
\* An ffmpeg that fails may or may not have written to its output file.
ExtractAudio ==
    /\ pc = "extract"
    /\ cmds' = Append1(cmds, ffmpeg_cmd(args.video, wav))
    /\ events' = Append1(events, "ffmpeg")
    /\ \E returncode \in {0, 1} :
         /\ returncodes' = Append1(returncodes, returncode)
         /\ IF run_cmd_streamed(returncode)
            THEN /\ Exit(1)
                 /\ fs' \in {fs, Put(fs, wav, "audio_partial")}
            ELSE /\ fs' = Put(fs, wav, "audio")
                 /\ pc' = "whisper"
                 /\ UNCHANGED exit_code
    /\ UNCHANGED history
    /\ UNCHANGED twin
    /\ UNCHANGED bound
    /\ UNCHANGED <<args, isatty, dirs, fs0, dirs0, model, language, out_dir,
                   clean_wav, overwrite, skip_if_exists, translate_to_en,
                   whisper_ok, detected, result, reported, faults, tools>>

\* Faulty variant: run_whisper called outside any try block, its failure is fatal.
RunWhisper_Fatal ==
    /\ pc = "whisper"
    /\ cmds' = Append1(cmds, whisper_cmd(wav, model, language, translate_to_en))
    /\ events' = Append1(events, "whisper")
    /\ \E returncode \in {0, 1} :
         /\ returncodes' = Append1(returncodes, returncode)
         /\ \E written \in (IF returncode = 0 THEN {ExtSet} ELSE PartialOutputs) :
              fs' = WriteOutputs(fs, wav, written, 1)
         /\ IF run_cmd_streamed(returncode)
            THEN Exit(1) /\ UNCHANGED <<whisper_ok, bound>>
            ELSE /\ whisper_ok' = TRUE
                 /\ bound' = bound \cup {"whisper_ok"}
                 /\ pc' = "relocate"
                 /\ UNCHANGED exit_code
    /\ UNCHANGED history
    /\ UNCHANGED twin
    /\ UNCHANGED <<args, isatty, dirs, fs0, dirs0, model, language, out_dir,
                   clean_wav, overwrite, skip_if_exists, translate_to_en,
                   detected, result, reported, faults, tools>>

\* Lines 239-244.
RunWhisper ==
    /\ pc = "whisper"
    /\ cmds' = Append1(cmds, whisper_cmd(wav, model, language, translate_to_en))
    /\ events' = Append1(events, "whisper")
    /\ \E returncode \in {0, 1} :
         /\ returncodes' = Append1(returncodes, returncode)
         /\ whisper_ok' = ~run_cmd_streamed(returncode)     \* try / except Exception
         /\ \E written \in (IF returncode = 0 THEN {ExtSet} ELSE PartialOutputs) :
              fs' = WriteOutputs(fs, wav, written, 1)
    /\ pc' = "relocate"
    /\ UNCHANGED history
    /\ UNCHANGED twin
    /\ bound' = IF pc' = "exit" THEN bound ELSE bound \cup {"whisper_ok"}
    /\ UNCHANGED <<exit_code, args, isatty, dirs, fs0, dirs0, model, language, out_dir,
                   clean_wav, overwrite, skip_if_exists, translate_to_en,
                   detected, result, reported, faults, tools>>

\* Line 247.
MoveWhisperOutputs ==
    /\ pc = "relocate"
    /\ \E failing \in SUBSET RelocationSources(fs, video_base) :
         /\ Cardinality(failing) <= MaxFaults - faults
         /\ faults' = faults + Cardinality(failing)
         /\ fs' = move_whisper_outputs(fs, video_base, out_dir, failing, 1)
    /\ events' = Append1(events, "relocate")
    /\ pc' = "cleanup"
    /\ UNCHANGED history
    /\ UNCHANGED twin
    /\ UNCHANGED bound
    /\ UNCHANGED <<exit_code, args, isatty, dirs, fs0, dirs0, model, language, out_dir,
                   clean_wav, overwrite, skip_if_exists, translate_to_en,
                   whisper_ok, detected, result, reported, cmds, returncodes, tools>>

\* Faulty variant: the clean flag read the wrong way round.
ShouldClean_Inverted(f, clean) == ~clean /\ Exists(f, wav)

\* Line 249: whether cleanup tries to delete the intermediate audio file.
ShouldClean(f, clean) == clean /\ Exists(f, wav)

\* Lines 249-254.
Cleanup ==
    /\ pc = "cleanup"
    /\ IF ShouldClean(fs, clean_wav)
       THEN \/ /\ fs' = Remove(fs, wav)
               /\ events' = events \o <<"cleanup", "unlink">>
               /\ UNCHANGED faults
            \/ /\ faults < MaxFaults
               /\ faults' = faults + 1
               /\ events' = events \o <<"cleanup", "unlink_failed">>
               /\ UNCHANGED fs
       ELSE /\ events' = Append1(events, "cleanup")
            /\ UNCHANGED <<fs, faults>>
    /\ pc' = "detect"
    /\ UNCHANGED history
    /\ UNCHANGED twin
    /\ UNCHANGED bound
    /\ UNCHANGED <<exit_code, args, isatty, dirs, fs0, dirs0, model, language, out_dir,
                   clean_wav, overwrite, skip_if_exists, translate_to_en,
                   whisper_ok, detected, result, reported, cmds, returncodes, tools>>

\* Lines 256-257.
Detect ==
    /\ pc = "detect"
    /\ LET d == find_detected_language(fs, srt_base)
       IN  IF d.raised
           THEN Exit(1) /\ UNCHANGED <<detected, result>>
           ELSE /\ detected' = d.value
                /\ result' = RunResult(d.value, whisper_ok)
                /\ pc' = "finalize"
                /\ UNCHANGED exit_code
    /\ UNCHANGED history
    /\ UNCHANGED twin
    /\ bound' = IF pc' = "exit" THEN bound ELSE bound \cup {"detected", "result"}
    /\ UNCHANGED <<args, isatty, fs, dirs, fs0, dirs0, model, language, out_dir,
                   clean_wav, overwrite, skip_if_exists, translate_to_en,
                   whisper_ok, reported, events, cmds, returncodes, faults, tools>>

----------------------------------------------------------------------------
(* main(), lines 386-411: finalize and report *)

\* Lines 387-389 with move_video_into_dir, lines 175-193.
MoveVideoIntoDir ==
    /\ pc = "finalize"
    /\ LET dest == video_dest(fs, args.video, out_dir)
       IN  \/ /\ fs' = Rename(fs, args.video, dest)
              /\ result' = [result EXCEPT !.video = dest]
              /\ events' = events \o <<"finalize", "move_video">>
              /\ UNCHANGED faults
           \/ /\ faults < MaxFaults
              /\ faults' = faults + 1
              /\ events' = events \o <<"finalize", "move_video_failed">>
              /\ UNCHANGED <<fs, result>>
    /\ pc' = "report"
    /\ UNCHANGED history
    /\ UNCHANGED twin
    /\ UNCHANGED bound
    /\ UNCHANGED <<exit_code, args, isatty, dirs, fs0, dirs0, model, language, out_dir,
                   clean_wav, overwrite, skip_if_exists, translate_to_en,
                   whisper_ok, detected, reported, cmds, returncodes, tools>>

\* Lines 391-411; falling off the end of main() is exit code 0.
Report ==
    /\ pc = "report"
    /\ reported' = [srt_exists |-> Exists(fs, result.srt),
                    detected_language |-> Or(result.detected_language, "Unknown"),
                    whisper_succeeded |-> result.whisper_succeeded,
                    video |-> result.video]
    /\ Exit(0)
    /\ UNCHANGED history
    /\ UNCHANGED twin
    /\ bound' = bound \cup {"reported"}
    /\ UNCHANGED <<args, isatty, fs, dirs, fs0, dirs0, model, language, out_dir,
                   clean_wav, overwrite, skip_if_exists, translate_to_en,
                   whisper_ok, detected, result, events, cmds, returncodes, faults, tools>>

----------------------------------------------------------------------------

Next ==
    \/ CheckVideo
    \/ ResolveModel
    \/ ResolveLanguage
    \/ ResolveOutDir
    \/ ResolveClean
    \/ ResolveTranslate
    \/ Confirm
    \/ CheckTools
    \/ SkipCheck
    \/ ExtractAudio
    \/ RunWhisper
    \/ MoveWhisperOutputs
    \/ Cleanup
    \/ Detect
    \/ MoveVideoIntoDir
    \/ Report

Spec == Init /\ [][Next]_vars

----------------------------------------------------------------------------
(* The first version, gen_subs.py.  gen_subs_EN.py is its translation: the
   same statements one line earlier from line 56 on, with other message
   strings and one other argument to Progress (see EN_pipeline_rich).
   Everything happens beside the video: there is no output folder and the
   video is never moved. *)

basename == with_suffix(args.video, <<>>)                              \* line 218
wav_v1 == with_suffix(basename, <<Dot, "wav">>)                        \* line 219
srt_file == with_suffix(basename, <<Dot, "srt">>)                      \* line 220

\* The files that may already lie beside the video.
InitV1 ==
    /\ pc = "v1_start"
    /\ exit_code = -1
    /\ isatty = FALSE
    /\ \E st \in Stems :
         LET video == Join(Cwd, VideoName(st))
         IN  /\ args \in [video : {video}, model : ModelFlags, language : LanguageFlags,
                          translate_to_en : BOOLEAN, no_clean : BOOLEAN,
                          no_overwrite : {FALSE}, no_skip : {FALSE}]
             /\ \E video_there, wav0 \in BOOLEAN,
                   json0 \in {None, "json_invalid", "json_language_fr"} :
                  LET f1 == Seed(EmptyFs, video_there, video, "video")
                      f2 == Seed(f1, wav0, with_suffix(with_suffix(video, <<>>),
                                                       <<Dot, "wav">>), "old")
                  IN  fs = Seed(f2, json0 # None,
                                with_suffix(with_suffix(video, <<>>), <<Dot, "json">>),
                                json0)
    /\ dirs = DirsOf(fs)
    /\ fs0 = fs
    /\ dirs0 = dirs
    /\ model = Unset
    /\ language = Unset
    /\ out_dir = <<>>
    /\ clean_wav = FALSE
    /\ overwrite = FALSE
    /\ skip_if_exists = FALSE
    /\ translate_to_en = FALSE
    /\ whisper_ok = FALSE
    /\ detected = Unset
    /\ result = [video |-> args.video, wav |-> args.video, srt |-> args.video,
                 detected_language |-> Unset, whisper_succeeded |-> FALSE]
    /\ reported = [srt_exists |-> FALSE, detected_language |-> Unset,
                   whisper_succeeded |-> FALSE, video |-> args.video]
    /\ bound = {}
    /\ events = <<>>
    /\ cmds = <<>>
    /\ returncodes = <<>>
    /\ faults = 0
    /\ tools = [ffmpeg |-> FALSE, whisper |-> FALSE]
    /\ history = <<>>
    /\ twin = IdleTwin

\* Lines 215-217: FileNotFoundError, turned into exit code 1 by line 366.
V1CheckVideo ==
    /\ pc = "v1_start"
    /\ IF ~Exists(fs, args.video) THEN Exit(1)
       ELSE pc' = "v1_tools" /\ UNCHANGED exit_code
    /\ UNCHANGED <<args, isatty, fs, dirs, fs0, dirs0, model, language, out_dir, clean_wav,
                   overwrite, skip_if_exists, translate_to_en, whisper_ok, detected,
                   result, reported, events, cmds, returncodes, faults, tools, bound,
                   history, twin>>

\* Lines 223-237.
V1CheckTools ==
    /\ pc = "v1_tools"
    /\ \E ffmpeg_ok, whisper_found \in BOOLEAN :
         /\ tools' = [ffmpeg |-> ffmpeg_ok, whisper |-> whisper_found]
         /\ IF ~(ffmpeg_ok /\ whisper_found) THEN Exit(1)
            ELSE pc' = "v1_model" /\ UNCHANGED exit_code
    /\ bound' = bound \cup {"tools"}
    /\ UNCHANGED <<args, isatty, fs, dirs, fs0, dirs0, model, language, out_dir, clean_wav,
                   overwrite, skip_if_exists, translate_to_en, whisper_ok, detected,
                   result, reported, events, cmds, returncodes, faults, history, twin>>

\* Line 240.
V1ResolveModel ==
    /\ pc = "v1_model"
    /\ IF Truthy(args.model)
       THEN /\ model' = args.model
            /\ pc' = "v1_language"
            /\ UNCHANGED <<exit_code, events>>
       ELSE /\ events' = Append1(events, "prompt_model")
            /\ \E resp \in ModelAnswers \cup {EOF} :
                 IF resp = EOF
                 THEN Exit(1) /\ UNCHANGED model
                 ELSE /\ model' = ask_choice(MODELS, "small", resp)
                      /\ pc' = "v1_language"
                      /\ UNCHANGED exit_code
    /\ bound' = IF pc' = "exit" THEN bound ELSE bound \cup {"model"}
    /\ UNCHANGED <<args, isatty, fs, dirs, fs0, dirs0, language, out_dir, clean_wav,
                   overwrite, skip_if_exists, translate_to_en, whisper_ok, detected,
                   result, reported, cmds, returncodes, faults, tools, history, twin>>

\* Lines 241-245.
V1ResolveLanguage ==
    /\ pc = "v1_language"
    /\ IF args.language # None
       THEN /\ language' = args.language
            /\ pc' = "v1_translate"
            /\ UNCHANGED <<exit_code, events>>
       ELSE /\ events' = Append1(events, "prompt_language")
            /\ \E lang_input \in LanguageAnswers \cup {EOF} :
                 IF lang_input = EOF
                 THEN Exit(1) /\ UNCHANGED language
                 ELSE /\ language' = IF lang_input # "" THEN lang_input ELSE None
                      /\ pc' = "v1_translate"
                      /\ UNCHANGED exit_code
    /\ bound' = IF pc' = "exit" THEN bound ELSE bound \cup {"language"}
    /\ UNCHANGED <<args, isatty, fs, dirs, fs0, dirs0, model, out_dir, clean_wav,
                   overwrite, skip_if_exists, translate_to_en, whisper_ok, detected,
                   result, reported, cmds, returncodes, faults, tools, history, twin>>

\* Lines 246-248.
V1ResolveTranslate ==
    /\ pc = "v1_translate"
    /\ IF args.translate_to_en
       THEN /\ translate_to_en' = TRUE
            /\ pc' = "v1_confirm"
            /\ UNCHANGED <<exit_code, events>>
       ELSE /\ events' = Append1(events, "prompt_translate")
            /\ \E resp \in YesNoAnswers \cup {EOF} :
                 IF resp = EOF
                 THEN Exit(1) /\ UNCHANGED translate_to_en
                 ELSE /\ translate_to_en' = yes_no(resp, FALSE)
                      /\ pc' = "v1_confirm"
                      /\ UNCHANGED exit_code
    /\ bound' = IF pc' = "exit" THEN bound ELSE bound \cup {"translate_to_en"}
    /\ UNCHANGED <<args, isatty, fs, dirs, fs0, dirs0, model, language, out_dir, clean_wav,
                   overwrite, skip_if_exists, whisper_ok, detected, result, reported, cmds,
                   returncodes, faults, tools, history, twin>>

\* Lines 271-273.
V1Confirm ==
    /\ pc = "v1_confirm"
    /\ \E resp \in YesNoAnswers \cup {EOF} :
         IF resp = EOF
         THEN Exit(1) /\ events' = Append1(events, "prompt_start")
         ELSE IF ~yes_no(resp, TRUE)
         THEN Exit(0) /\ events' = events \o <<"prompt_start", "cancelled">>
         ELSE /\ pc' = "v1_extract"
              /\ events' = Append1(events, "prompt_start")
              /\ UNCHANGED exit_code
    /\ UNCHANGED <<args, isatty, fs, dirs, fs0, dirs0, model, language, out_dir, clean_wav,
                   overwrite, skip_if_exists, translate_to_en, whisper_ok, detected,
                   result, reported, cmds, returncodes, faults, tools, bound, history, twin>>

\* Faulty variant: a non-zero exit code raises nothing.
run_cmd_Unchecked(returncode) == FALSE

\* Lines 78-84: run_cmd raises RuntimeError on a non-zero exit code.
run_cmd(returncode) == returncode # 0

\* Lines 316-321 (291-297 with rich): a failed extraction is sys.exit(1).
V1ExtractAudio ==
    /\ pc = "v1_extract"
    /\ cmds' = Append1(cmds, ffmpeg_cmd(args.video, wav_v1))
    /\ events' = Append1(events, "ffmpeg")
    /\ \E returncode \in {0, 1} :
         /\ returncodes' = Append1(returncodes, returncode)
         /\ IF run_cmd(returncode)
            THEN /\ Exit(1)
                 /\ fs' \in {fs, Put(fs, wav_v1, "audio_partial")}
            ELSE /\ fs' = Put(fs, wav_v1, "audio")
                 /\ pc' = "v1_whisper"
                 /\ UNCHANGED exit_code
    /\ UNCHANGED <<args, isatty, dirs, fs0, dirs0, model, language, out_dir, clean_wav,
                   overwrite, skip_if_exists, translate_to_en, whisper_ok, detected,
                   result, reported, faults, tools, bound, history, twin>>

\* Lines 322-326 (299-305 with rich): a failed whisper is reported and the run goes on.
V1RunWhisper ==
    /\ pc = "v1_whisper"
    /\ cmds' = Append1(cmds, whisper_cmd(wav_v1, model, language, translate_to_en))
    /\ events' = Append1(events, "whisper")
    /\ \E returncode \in {0, 1} :
         /\ returncodes' = Append1(returncodes, returncode)
         /\ whisper_ok' = ~run_cmd(returncode)
         /\ \E written \in (IF returncode = 0 THEN {ExtSet} ELSE PartialOutputs) :
              fs' = WriteOutputs(fs, wav_v1, written, 1)
    /\ pc' = "v1_cleanup"
    /\ bound' = bound \cup {"whisper_ok"}
    /\ UNCHANGED <<exit_code, args, isatty, dirs, fs0, dirs0, model, language, out_dir,
                   clean_wav, overwrite, skip_if_exists, translate_to_en, detected, result,
                   reported, faults, tools, history, twin>>

\* Lines 327-332 (307-314 with rich).
V1Cleanup ==
    /\ pc = "v1_cleanup"
    /\ IF ~args.no_clean /\ Exists(fs, wav_v1)
       THEN \/ /\ fs' = Remove(fs, wav_v1)
               /\ events' = events \o <<"cleanup", "unlink">>
               /\ UNCHANGED faults
            \/ /\ faults < MaxFaults
               /\ faults' = faults + 1
               /\ events' = events \o <<"cleanup", "unlink_failed">>
               /\ UNCHANGED fs
       ELSE /\ events' = Append1(events, "cleanup")
            /\ UNCHANGED <<fs, faults>>
    /\ pc' = "v1_report"
    /\ UNCHANGED <<exit_code, args, isatty, dirs, fs0, dirs0, model, language, out_dir,
                   clean_wav, overwrite, skip_if_exists, translate_to_en, whisper_ok,
                   detected, result, reported, cmds, returncodes, tools, bound, history, twin>>

\* Lines 335-355; falling off the end of main() is exit code 0.
V1Report ==
    /\ pc = "v1_report"
    /\ LET d == find_detected_language(fs, basename)
       IN  /\ detected' = d.value
           /\ reported' = [srt_exists |-> Exists(fs, srt_file),
                           detected_language |-> Or(d.value, "Inconnue"),
                           whisper_succeeded |-> whisper_ok,
                           video |-> args.video]
    /\ Exit(0)
    /\ bound' = bound \cup {"detected", "reported"}
    /\ UNCHANGED <<args, isatty, fs, dirs, fs0, dirs0, model, language, out_dir, clean_wav,
                   overwrite, skip_if_exists, translate_to_en, whisper_ok, result, events,
                   cmds, returncodes, faults, tools, history, twin>>

NextV1 ==
    \/ V1CheckVideo
    \/ V1ResolveModel
    \/ V1CheckTools
    \/ V1ResolveLanguage
    \/ V1ResolveTranslate
    \/ V1Confirm
    \/ V1ExtractAudio
    \/ V1RunWhisper
    \/ V1Cleanup
    \/ V1Report

\* A run of either version.
SpecVersions == (Init \/ InitV1) /\ [][Next \/ NextV1]_vars

----------------------------------------------------------------------------
(* Ctrl-C.  KeyboardInterrupt is not an Exception: no inner try catches it and
   it reaches the handler at the end of main (v1.1 lines 413-415, gen_subs.py
   lines 363-365). *)

\* Faulty variant: no handler for KeyboardInterrupt, the interpreter ends the
\* process itself with status 130.
Interrupt_Unhandled ==
    /\ pc # "exit"
    /\ Exit(130)
    /\ events' = Append1(events, "interrupt")
    /\ UNCHANGED <<args, isatty, fs, dirs, fs0, dirs0, model, language, out_dir,
                   clean_wav, overwrite, skip_if_exists, translate_to_en, whisper_ok,
                   detected, result, reported, cmds, returncodes, faults, tools,
                   bound, history, twin>>

\* The signal arrives between two stages or while input() waits for an answer.
Interrupt ==
    /\ pc # "exit"
    /\ Exit(1)
    /\ events' = Append1(events, "interrupt")
    /\ UNCHANGED <<args, isatty, fs, dirs, fs0, dirs0, model, language, out_dir,
                   clean_wav, overwrite, skip_if_exists, translate_to_en, whisper_ok,
                   detected, result, reported, cmds, returncodes, faults, tools,
                   bound, history, twin>>

\* The signal arrives while run_cmd_streamed (run_cmd) waits for the subprocess:
\* the tool was started, may have written part of its output, and its exit code
\* is never read.
InterruptSubprocess ==
    /\ pc \in {"extract", "whisper", "v1_extract", "v1_whisper"}
    /\ LET w == IF pc \in {"extract", "whisper"} THEN wav ELSE wav_v1
       IN  IF pc \in {"extract", "v1_extract"}
           THEN /\ cmds' = Append1(cmds, ffmpeg_cmd(args.video, w))
                /\ events' = events \o <<"ffmpeg", "interrupt">>
                /\ fs' \in {fs, Put(fs, w, "audio_partial")}
           ELSE /\ cmds' = Append1(cmds, whisper_cmd(w, model, language, translate_to_en))
                /\ events' = events \o <<"whisper", "interrupt">>
                /\ \E written \in PartialOutputs : fs' = WriteOutputs(fs, w, written, 1)
    /\ Exit(1)
    /\ UNCHANGED <<args, isatty, dirs, fs0, dirs0, model, language, out_dir,
                   clean_wav, overwrite, skip_if_exists, translate_to_en, whisper_ok,
                   detected, result, reported, returncodes, faults, tools,
                   bound, history, twin>>

\* A run of either version that Ctrl-C may end at any point.
SpecInterrupt ==
    (Init \/ InitV1) /\ [][Next \/ NextV1 \/ Interrupt \/ InterruptSubprocess]_vars

----------------------------------------------------------------------------
(* The latest version started again with the same command line, on the files
   the run before left behind. *)

\* A non-interactive command line that names the model and the language; the
\* output folder may hold an old .srt and videos of the same name.
InitRerun ==
    /\ Init
    /\ ~isatty
    /\ args.model = "tiny"
    /\ args.language = "fr"
    /\ ~args.translate_to_en
    /\ \A p \in DOMAIN fs : suffix(p[2]) \notin {<<Dot, "json">>, <<Dot, "wav">>}

\* The process has ended; a new process starts main() from line 259 with the
\* same sys.argv.  Nothing but the files and directories outlives a process.
Rerun ==
    /\ pc = "exit"
    /\ Len(history) + 1 < MaxRuns
    /\ history' = Append(history, [exit_code |-> exit_code, events |-> events])
    /\ pc' = "start"
    /\ exit_code' = -1
    /\ fs0' = fs
    /\ dirs0' = dirs
    /\ model' = Unset
    /\ language' = Unset
    /\ out_dir' = <<>>
    /\ clean_wav' = FALSE
    /\ overwrite' = FALSE
    /\ skip_if_exists' = FALSE
    /\ translate_to_en' = FALSE
    /\ whisper_ok' = FALSE
    /\ detected' = Unset
    /\ result' = [video |-> args.video, wav |-> args.video, srt |-> args.video,
                  detected_language |-> Unset, whisper_succeeded |-> FALSE]
    /\ reported' = [srt_exists |-> FALSE, detected_language |-> Unset,
                    whisper_succeeded |-> FALSE, video |-> args.video]
    /\ bound' = {}
    /\ events' = <<>>
    /\ cmds' = <<>>
    /\ returncodes' = <<>>
    /\ tools' = [ffmpeg |-> FALSE, whisper |-> FALSE]
    /\ UNCHANGED <<args, isatty, fs, dirs, faults, twin>>

SpecRerun == InitRerun /\ [][Next \/ Rerun]_vars

----------------------------------------------------------------------------
(* The latest version run on a video that already lies in its output folder,
   then run again on the file where Finalize put it. *)

\* The video is <cwd>/<stem>/<stem>.mp4; the folder may hold an old .srt and
\* an old <stem>_1.mp4.
InitInPlace ==
    /\ pc = "start"
    /\ exit_code = -1
    /\ isatty \in BOOLEAN
    /\ \E st \in Stems :
         LET video == Join(st, VideoName(st))
         IN  /\ args \in [video : {video}, model : {"tiny"}, language : {"fr"},
                          translate_to_en : {TRUE}, no_clean : {FALSE},
                          no_overwrite : {FALSE}, no_skip : BOOLEAN]
             /\ \E srt0, first_candidate \in BOOLEAN :
                  fs = SeedFs(video, TRUE, srt0, None, FALSE, FALSE, first_candidate, FALSE)
    /\ dirs = DirsOf(fs)
    /\ fs0 = fs
    /\ dirs0 = dirs
    /\ model = Unset
    /\ language = Unset
    /\ out_dir = <<>>
    /\ clean_wav = FALSE
    /\ overwrite = FALSE
    /\ skip_if_exists = FALSE
    /\ translate_to_en = FALSE
    /\ whisper_ok = FALSE
    /\ detected = Unset
    /\ result = [video |-> args.video, wav |-> args.video, srt |-> args.video,
                 detected_language |-> Unset, whisper_succeeded |-> FALSE]
    /\ reported = [srt_exists |-> FALSE, detected_language |-> Unset,
                   whisper_succeeded |-> FALSE, video |-> args.video]
    /\ bound = {}
    /\ events = <<>>
    /\ cmds = <<>>
    /\ returncodes = <<>>
    /\ faults = 0
    /\ tools = [ffmpeg |-> FALSE, whisper |-> FALSE]
    /\ history = <<>>
    /\ twin = IdleTwin

\* The process has ended after moving the video; a new process starts main()
\* with the path the report gave as "Video location" (line 410) as its
\* argument, the other arguments as before.
RerunOnMovedVideo ==
    /\ pc = "exit"
    /\ Len(history) + 1 < MaxRuns
    /\ \E i \in DOMAIN events : events[i] = "move_video"
    /\ "reported" \in bound
    /\ args' = [args EXCEPT !.video = reported.video]
    /\ history' = Append(history, [exit_code |-> exit_code, events |-> events,
                                   video |-> args.video])
    /\ pc' = "start"
    /\ exit_code' = -1
    /\ fs0' = fs
    /\ dirs0' = dirs
    /\ model' = Unset
    /\ language' = Unset
    /\ out_dir' = <<>>
    /\ clean_wav' = FALSE
    /\ overwrite' = FALSE
    /\ skip_if_exists' = FALSE
    /\ translate_to_en' = FALSE
    /\ whisper_ok' = FALSE
    /\ detected' = Unset
    /\ result' = [video |-> args'.video, wav |-> args'.video, srt |-> args'.video,
                  detected_language |-> Unset, whisper_succeeded |-> FALSE]
    /\ reported' = [srt_exists |-> FALSE, detected_language |-> Unset,
                    whisper_succeeded |-> FALSE, video |-> args'.video]
    /\ bound' = {}
    /\ events' = <<>>
    /\ cmds' = <<>>
    /\ returncodes' = <<>>
    /\ tools' = [ffmpeg |-> FALSE, whisper |-> FALSE]
    /\ UNCHANGED <<isatty, fs, dirs, faults, twin>>

SpecInPlace == InitInPlace /\ [][Next \/ RerunOnMovedVideo]_vars

----------------------------------------------------------------------------
(* gen_subs.py and gen_subs_EN.py side by side.  Given the command line, the
   answers typed, what is on the PATH, the exit codes of the tools and whether
   rich can be imported, main() is deterministic: each file is a function from
   these inputs to what it does.  What it does: the external commands started
   and the .wav deletions, in order, and the exit code. *)

Outcome(trace, code) == [trace |-> trace, exit_code |-> code]
NotRun == Outcome(<<>>, -1)

Deletion(wav_path) == << Str("unlink"), StrPath(wav_path) >>

\* gen_subs.py lines 218-219, gen_subs_EN.py lines 217-218.
WavBeside(video) == with_suffix(with_suffix(video, <<>>), <<Dot, "wav">>)

\* gen_subs.py lines 316-332: the pipeline when rich is not importable.
\* An ffmpeg that ended with exit code 0 has written the .wav, so wav.exists()
\* holds at the cleanup.
FR_pipeline_plain(in, mdl, lang, translate) ==
    LET wav_path == WavBeside(in.video)
        t1 == << ffmpeg_cmd(in.video, wav_path) >>
        t2 == Append(t1, whisper_cmd(wav_path, mdl, lang, translate))
    IN  IF run_cmd(in.rc_ffmpeg) THEN Outcome(t1, 1)              \* lines 319-321
        ELSE IF ~in.no_clean /\ ~in.unlink_fails                   \* lines 327-332
        THEN Outcome(Append(t2, Deletion(wav_path)), 0)
        ELSE Outcome(t2, 0)

\* gen_subs.py lines 283-314: the pipeline inside rich's Progress.
FR_pipeline_rich(in, mdl, lang, translate) ==
    LET wav_path == WavBeside(in.video)
        t1 == << ffmpeg_cmd(in.video, wav_path) >>
        t2 == Append(t1, whisper_cmd(wav_path, mdl, lang, translate))
    IN  IF run_cmd(in.rc_ffmpeg) THEN Outcome(t1, 1)              \* lines 294-297
        ELSE IF ~in.no_clean /\ ~in.unlink_fails                   \* lines 307-314
        THEN Outcome(Append(t2, Deletion(wav_path)), 0)
        ELSE Outcome(t2, 0)

\* gen_subs.py main(), lines 214-368.  An EOFError from input() and the
\* FileNotFoundError of line 217 end in the handler of lines 366-368.
FR_main(in) ==
    IF ~in.video_there THEN Outcome(<<>>, 1)
    ELSE IF ~(in.ffmpeg_ok /\ in.whisper_found) THEN Outcome(<<>>, 1)
    ELSE IF ~Truthy(in.model) /\ in.model_answer = EOF THEN Outcome(<<>>, 1)
    ELSE IF in.language = None /\ in.language_answer = EOF THEN Outcome(<<>>, 1)
    ELSE IF ~in.translate_to_en /\ in.translate_answer = EOF THEN Outcome(<<>>, 1)
    ELSE IF in.start_answer = EOF THEN Outcome(<<>>, 1)
    ELSE IF ~yes_no(in.start_answer, TRUE) THEN Outcome(<<>>, 0)
    ELSE LET mdl  == IF Truthy(in.model) THEN in.model
                     ELSE ask_choice(MODELS, "small", in.model_answer)
             lang == IF in.language # None THEN in.language
                     ELSE IF in.language_answer # "" THEN in.language_answer
                     ELSE None
             translate == IF in.translate_to_en THEN TRUE
                          ELSE yes_no(in.translate_answer, FALSE)
         IN  IF in.rich
             THEN FR_pipeline_rich(in, mdl, lang, translate)
             ELSE FR_pipeline_plain(in, mdl, lang, translate)

\* gen_subs_EN.py lines 315-331: the pipeline when rich is not importable.
EN_pipeline_plain(in, mdl, lang, translate) ==
    LET wav_path == WavBeside(in.video)
        t1 == << ffmpeg_cmd(in.video, wav_path) >>
        t2 == Append(t1, whisper_cmd(wav_path, mdl, lang, translate))
    IN  IF run_cmd(in.rc_ffmpeg) THEN Outcome(t1, 1)              \* lines 318-320
        ELSE IF ~in.no_clean /\ ~in.unlink_fails                   \* lines 326-331
        THEN Outcome(Append(t2, Deletion(wav_path)), 0)
        ELSE Outcome(t2, 0)

\* gen_subs_EN.py lines 282-288: Progress(..., transient=true).  The name true
\* is bound nowhere, so evaluating the arguments raises NameError before the
\* with block is entered; the handler of lines 365-367 makes it exit code 1.
EN_pipeline_rich(in, mdl, lang, translate) ==
    Outcome(<<>>, 1)

\* gen_subs_EN.py main(), lines 213-367.
EN_main(in) ==
    IF ~in.video_there THEN Outcome(<<>>, 1)
    ELSE IF ~(in.ffmpeg_ok /\ in.whisper_found) THEN Outcome(<<>>, 1)
    ELSE IF ~Truthy(in.model) /\ in.model_answer = EOF THEN Outcome(<<>>, 1)
    ELSE IF in.language = None /\ in.language_answer = EOF THEN Outcome(<<>>, 1)
    ELSE IF ~in.translate_to_en /\ in.translate_answer = EOF THEN Outcome(<<>>, 1)
    ELSE IF in.start_answer = EOF THEN Outcome(<<>>, 1)
    ELSE IF ~yes_no(in.start_answer, TRUE) THEN Outcome(<<>>, 0)
    ELSE LET mdl  == IF Truthy(in.model) THEN in.model
                     ELSE ask_choice(MODELS, "small", in.model_answer)
             lang == IF in.language # None THEN in.language
                     ELSE IF in.language_answer # "" THEN in.language_answer
                     ELSE None
             translate == IF in.translate_to_en THEN TRUE
                          ELSE yes_no(in.translate_answer, FALSE)
         IN  IF in.rich
             THEN EN_pipeline_rich(in, mdl, lang, translate)
             ELSE EN_pipeline_plain(in, mdl, lang, translate)

\* Every command line and every answer, with both tools found and succeeding.
CommandLineInputs ==
    [video : {Join(Cwd, VideoName(st)) : st \in Stems}, video_there : {TRUE},
     model : ModelFlags, language : LanguageFlags, translate_to_en : BOOLEAN,
     no_clean : BOOLEAN, rich : BOOLEAN,
     ffmpeg_ok : {TRUE}, whisper_found : {TRUE},
     model_answer : ModelAnswers \cup {EOF},
     language_answer : LanguageAnswers \cup {EOF},
     translate_answer : YesNoAnswers \cup {EOF},
     start_answer : YesNoAnswers \cup {EOF},
     rc_ffmpeg : {0}, rc_whisper : {0}, unlink_fails : {FALSE}]

\* Every environment, for a command line that names model and language.
EnvironmentInputs ==
    [video : {Join(Cwd, VideoName(st)) : st \in Stems}, video_there : BOOLEAN,
     model : {"tiny"}, language : {"fr"}, translate_to_en : {TRUE},
     no_clean : BOOLEAN, rich : BOOLEAN,
     ffmpeg_ok : BOOLEAN, whisper_found : BOOLEAN,
     model_answer : {""}, language_answer : {""}, translate_answer : {""},
     start_answer : YesNoAnswers \cup {EOF},
     rc_ffmpeg : {0, 1}, rc_whisper : {0, 1}, unlink_fails : BOOLEAN]

InitEquivalence ==
    /\ twin \in [started : {TRUE}, in : CommandLineInputs \cup EnvironmentInputs,
                 fr : {NotRun}, en : {NotRun}]
    /\ pc = "twin"
    /\ exit_code = -1
    /\ isatty = FALSE
    /\ args = [video |-> twin.in.video, model |-> twin.in.model,
               language |-> twin.in.language,
               translate_to_en |-> twin.in.translate_to_en,
               no_clean |-> twin.in.no_clean,
               no_overwrite |-> FALSE, no_skip |-> FALSE]
    /\ fs = Seed(EmptyFs, twin.in.video_there, twin.in.video, "video")
    /\ dirs = {}
    /\ fs0 = fs
    /\ dirs0 = dirs
    /\ model = Unset
    /\ language = Unset
    /\ out_dir = <<>>
    /\ clean_wav = FALSE
    /\ overwrite = FALSE
    /\ skip_if_exists = FALSE
    /\ translate_to_en = FALSE
    /\ whisper_ok = FALSE
    /\ detected = Unset
    /\ result = [video |-> args.video, wav |-> args.video, srt |-> args.video,
                 detected_language |-> Unset, whisper_succeeded |-> FALSE]
    /\ reported = [srt_exists |-> FALSE, detected_language |-> Unset,
                   whisper_succeeded |-> FALSE, video |-> args.video]
    /\ bound = {}
    /\ events = <<>>
    /\ cmds = <<>>
    /\ returncodes = <<>>
    /\ faults = 0
    /\ tools = [ffmpeg |-> FALSE, whisper |-> FALSE]
    /\ history = <<>>

TwinFrame ==
    UNCHANGED <<pc, exit_code, args, isatty, fs, dirs, fs0, dirs0, model, language,
                out_dir, clean_wav, overwrite, skip_if_exists, translate_to_en,
                whisper_ok, detected, result, reported, events, cmds, returncodes,
                faults, tools, bound, history>>

\* python gen_subs.py ...
RunFrench ==
    /\ pc = "twin"
    /\ twin.fr = NotRun
    /\ twin' = [twin EXCEPT !.fr = FR_main(twin.in)]
    /\ TwinFrame

\* python gen_subs_EN.py ..., same arguments, same answers, same environment.
RunEnglish ==
    /\ pc = "twin"
    /\ twin.en = NotRun
    /\ twin' = [twin EXCEPT !.en = EN_main(twin.in)]
    /\ TwinFrame

SpecEquivalence == InitEquivalence /\ [][RunFrench \/ RunEnglish]_vars

----------------------------------------------------------------------------
(* vocabulary of the properties *)

Has(e) == \E i \in DOMAIN events : events[i] = e

Program(cmd) == cmd[1][1]
Programs == [i \in DOMAIN cmds |-> Program(cmds[i])]

Prompts == {"prompt_model", "prompt_language", "prompt_folder", "prompt_clean",
            "prompt_translate", "prompt_start"}

Exited == pc = "exit"
ToolsFound == "tools" \in bound /\ tools.ffmpeg /\ tools.whisper
\* process_video was entered (the tool check passed) and the run is over.
ProcessedAndExited == Exited /\ ToolsFound

FfmpegFailed ==
    \E i \in DOMAIN cmds : Program(cmds[i]) = "ffmpeg" /\ returncodes[i] # 0
WhisperFailed ==
    \E i \in DOMAIN cmds : Program(cmds[i]) = "whisper" /\ returncodes[i] # 0

\* <out_dir>/<stem>.json, the companion JSON artifact of the glossary.
CompanionJson == Join(out_dir, stem(args.video[2]) \o <<Dot, "json">>)

\* The language code a JSON file carries, None when it carries none.
LanguageIn(f, path) ==
    IF ~Exists(f, path) THEN None
    ELSE CASE f[path] = "json_language_fr" -> "fr"
           [] f[path] = "json_language_en" -> "en"
           [] f[path] = "json_legacy_de"   -> "de"
           [] OTHER                        -> None

----------------------------------------------------------------------------
(* C1 - C3 *)

\* C1: whenever <out_dir>/<stem>.srt exists when process_video is entered and
\* skip-if-exists is enabled, neither ffmpeg nor whisper is invoked, whatever
\* the overwrite flag, and the detected language returned is the one carried by
\* the existing <out_dir>/<stem>.json.  (The files are those of the process
\* start: nothing before process_video writes a file.)
C1_SkipReusesDetectedLanguage ==
    ("skip_if_exists" \in bound /\ skip_if_exists /\ Exists(fs0, srt))
        => /\ cmds = <<>>
           /\ "result" \in bound
                => result.detected_language = LanguageIn(fs0, CompanionJson)

\* C2 as stated: with overwrite enabled and skip-if-exists disabled, a run that
\* entered process_video has invoked ffmpeg and then whisper, whatever files
\* existed before.
C2_BothToolsInvoked ==
    (ProcessedAndExited /\ overwrite /\ ~skip_if_exists)
        => Programs = <<"ffmpeg", "whisper">>

\* C2 as amended: with overwrite enabled and skip-if-exists disabled, a run that
\* entered process_video has invoked ffmpeg, whatever files existed before, and
\* then whisper unless ffmpeg ended with a non-zero exit code.
C2_FfmpegThenWhisperUnlessExtractFails ==
    (ProcessedAndExited /\ overwrite /\ ~skip_if_exists)
        => \/ Programs = <<"ffmpeg", "whisper">> /\ returncodes[1] = 0
           \/ Programs = <<"ffmpeg">> /\ returncodes[1] # 0

C2_Witness ==
    /\ ProcessedAndExited /\ overwrite /\ ~skip_if_exists
    /\ Exists(fs0, srt)
    /\ Programs = <<"ffmpeg", "whisper">>

\* C3: when ffmpeg or whisper is not found, the run ends with exit code 1 and
\* has modified nothing: no directory created, no file created, moved or
\* deleted, no subprocess started.
C3_MissingToolModifiesNothing ==
    ("tools" \in bound /\ ~(tools.ffmpeg /\ tools.whisper))
        => /\ Exited /\ exit_code = 1
           /\ dirs = dirs0
           /\ fs = fs0
           /\ cmds = <<>>

----------------------------------------------------------------------------
(* C4 - C6 *)

Untouched(path) == Exists(fs, path) /\ fs[path] = fs0[path]

\* C4: if the ffmpeg subprocess ends with a non-zero exit code the run ends
\* with exit code 1 and no later stage executes: whisper is not invoked, no
\* output is relocated, cleanup deletes no .wav, the source video is not moved.
\* (Every file of the process start is still there, and only the .wav that
\* ffmpeg itself was writing may differ.)
C4_ExtractFailureAborts ==
    FfmpegFailed
        => /\ Exited /\ exit_code = 1
           /\ Programs = <<"ffmpeg">>
           /\ \A e \in {"whisper", "relocate", "cleanup", "unlink", "finalize",
                        "move_video"} : ~Has(e)
           /\ \A path \in DOMAIN fs0 : Exists(fs, path) /\ (path # wav => Untouched(path))
           /\ DOMAIN fs \subseteq DOMAIN fs0 \cup {wav}

C4_Witness ==
    FfmpegFailed /\ Exited /\ Exists(fs0, wav) /\ Exists(fs0, srt)

\* C5: if whisper ends with a non-zero exit code (after a successful
\* extraction), the failure is recorded as whisper_succeeded = false, Relocate,
\* Cleanup and Finalize still execute, and the process exits with code 0.
C5_WhisperFailureIsRecorded ==
    WhisperFailed
        => /\ "whisper_ok" \in bound /\ ~whisper_ok
           /\ Exited => /\ exit_code = 0
                        /\ Has("relocate") /\ Has("cleanup") /\ Has("finalize")
                        /\ "reported" \in bound /\ ~reported.whisper_succeeded

C5_Witness ==
    WhisperFailed /\ Exited /\ Has("unlink") /\ Has("move_video")

----------------------------------------------------------------------------
(* C7 - C8 *)

NumberedName(name, i) == stem(name) \o <<"_", ToString(i)>> \o suffix(name)

\* C7: move_video_into_dir never overwrites.  Whenever it moves the video, the
\* destination did not exist before the move and holds the video after it;
\* every other file of the output directory is still there with its content;
\* and when <out_dir>/<video name> already existed the destination is
\* <out_dir>/<stem>_<i><suffix> for some i >= 1.
C7_MoveNeverOverwrites ==
    [][ (pc = "finalize" /\ pc' = "report" /\ events'[Len(events')] = "move_video")
          => LET dest == result'.video
             IN  /\ ~Exists(fs, dest)
                 /\ Exists(fs', dest) /\ fs'[dest] = fs[args.video]
                 /\ \A path \in DOMAIN fs :
                      (path[1] = out_dir /\ path # args.video)
                          => (Exists(fs', path) /\ fs'[path] = fs[path])
                 /\ Exists(fs, Join(out_dir, args.video[2]))
                      => \E i \in 1..(Cardinality(DOMAIN fs) + 1) :
                           dest = Join(out_dir, NumberedName(args.video[2], i))
      ]_vars

C7_Witness ==
    /\ pc = "report" /\ Has("move_video")
    /\ Exists(fs0, Join(out_dir, args.video[2]))
    /\ fs[Join(out_dir, args.video[2])] = "old"
    /\ fs[Join(out_dir, NumberedName(args.video[2], 1))] = "old"
    /\ result.video = Join(out_dir, NumberedName(args.video[2], 2))
    /\ fs[result.video] = "video"

\* The file find_detected_language opens.
DetectedFrom == with_suffix(srt_base, <<Dot, "json">>)

\* C8: whatever the state of the JSON file (absent, unreadable, not JSON, JSON
\* that is not an object, an object carrying no language), find_detected_language
\* returns no language and raises nothing: the run reports "Unknown", and after
\* the tool check the only way to a non-zero exit code is a failed ffmpeg.
C8_MalformedJsonIsUnknown ==
    /\ ("result" \in bound /\ LanguageIn(fs, DetectedFrom) = None)
         => result.detected_language = None
    /\ ("reported" \in bound /\ LanguageIn(fs, DetectedFrom) = None)
         => reported.detected_language = "Unknown"
    /\ (ProcessedAndExited /\ exit_code # 0) => FfmpegFailed

C8_Witness ==
    /\ "reported" \in bound
    /\ Exists(fs, DetectedFrom) /\ fs[DetectedFrom] = "json_array"
    /\ reported.detected_language = "Unknown"

----------------------------------------------------------------------------
(* C9 - C10 *)

\* C9: when stdin is not an interactive terminal, no prompt is issued at any
\* point of the run and every field without a flag takes its default: model
\* small, language auto-detect, translate false, clean true, output directory
\* named after the source stem.
C9_NonInteractiveNeverPrompts ==
    ~isatty
        => /\ \A i \in DOMAIN events : events[i] \notin Prompts
           /\ ("model" \in bound /\ args.model = None) => model = "small"
           /\ ("language" \in bound /\ args.language = None) => language = None
           /\ ("translate_to_en" \in bound /\ ~args.translate_to_en) => ~translate_to_en
           /\ ("clean_wav" \in bound /\ ~args.no_clean) => clean_wav
           /\ "out_dir" \in bound => out_dir = stem(args.video[2])

\* C10: a field whose flag is on the command line takes the flag's value and
\* is never prompted for, on an interactive terminal or not.
C10_FlagWinsOverPrompt ==
    /\ args.model # None
         => (~Has("prompt_model") /\ ("model" \in bound => model = args.model))
    /\ args.language # None
         => (~Has("prompt_language") /\ ("language" \in bound => language = args.language))
    /\ args.translate_to_en
         => (~Has("prompt_translate") /\ ("translate_to_en" \in bound => translate_to_en))
    /\ args.no_clean
         => (~Has("prompt_clean") /\ ("clean_wav" \in bound => ~clean_wav))
    /\ args.no_overwrite => ("overwrite" \in bound => ~overwrite)
    /\ args.no_skip => ("skip_if_exists" \in bound => ~skip_if_exists)

----------------------------------------------------------------------------
(* C11 - C20 *)

\* The stages of a run, in the order of the pipeline.
StageOrder == <<"ffmpeg", "whisper", "relocate", "cleanup", "finalize">>
StageEvents == {StageOrder[k] : k \in DOMAIN StageOrder}
StageRank(e) == CHOOSE k \in DOMAIN StageOrder : StageOrder[k] = e

\* C11: a negative answer to the start-confirmation prompt ends the run with
\* exit code 0, and in that run no external tool is invoked, no whisper output
\* is relocated, no .wav is deleted and the source video is not moved.
C11_CancelTouchesNothing ==
    Has("cancelled")
        => /\ Exited
           /\ exit_code = 0
           /\ cmds = <<>>
           /\ \A i \in DOMAIN events :
                events[i] \notin StageEvents \cup {"unlink", "move_video"}
           /\ fs = fs0

\* A run of the first version refused at the start prompt.
C11_Witness ==
    /\ Has("cancelled")
    /\ Exited
    /\ "tools" \in bound
    /\ "out_dir" \notin bound

\* C12: if the source file named on the command line does not exist, every
\* version aborts at once with exit code 1: no prompt, no output directory
\* created, no probe for the tools, no external tool invoked.
C12_MissingVideoAbortsAtOnce ==
    ~Exists(fs0, args.video)
        => /\ pc \in {"start", "v1_start", "exit"}
           /\ Exited => exit_code = 1
           /\ events = <<>>
           /\ cmds = <<>>
           /\ "tools" \notin bound
           /\ dirs = dirs0
           /\ fs = fs0

C12_Witness ==
    /\ ~Exists(fs0, args.video)
    /\ Exited
    /\ exit_code = 1

\* C13 as stated: with skip-if-exists disabled, a run that entered
\* process_video has invoked ffmpeg and then whisper, whatever the overwrite
\* flag and whether or not <out_dir>/<stem>.srt existed.
C13_NoSkipAlwaysReruns ==
    (ProcessedAndExited /\ ~skip_if_exists)
        => Programs = <<"ffmpeg", "whisper">>

\* C13 as amended: with skip-if-exists disabled, a run that entered
\* process_video has invoked ffmpeg (then whisper unless ffmpeg ended with a
\* non-zero exit code) if overwrite is enabled or <out_dir>/<stem>.srt did not
\* exist, and has invoked no tool if overwrite is disabled and the .srt existed.
C13_NoSkipRerunsUnlessSrtKept ==
    (ProcessedAndExited /\ ~skip_if_exists)
        => IF overwrite \/ ~Exists(fs0, srt)
           THEN \/ Programs = <<"ffmpeg", "whisper">> /\ returncodes[1] = 0
                \/ Programs = <<"ffmpeg">> /\ returncodes[1] # 0
           ELSE cmds = <<>> /\ Has("skip")

C13_Witness ==
    /\ ProcessedAndExited /\ ~skip_if_exists
    /\ ~overwrite
    /\ Exists(fs0, srt)
    /\ cmds = <<>>

\* C14: the stages of a run execute strictly in the order Extract, Transcribe,
\* Relocate, Cleanup, Finalize, each one only after the previous one has
\* returned; whisper is started only after ffmpeg has ended with exit code 0,
\* and no subprocess is started while another one is still running.
C14_StagesInOrder ==
    /\ \A i, j \in DOMAIN events :
         (i < j /\ events[i] \in StageEvents /\ events[j] \in StageEvents)
            => StageRank(events[i]) < StageRank(events[j])
    /\ \A e \in StageEvents :
         (Has(e) /\ StageRank(e) > 1 /\ ~Has("skip"))
            => Has(StageOrder[StageRank(e) - 1])
    /\ Has("skip") => \A e \in StageEvents : Has(e) => e = "finalize"
    /\ Has("whisper") => (Programs[1] = "ffmpeg" /\ returncodes[1] = 0)
    /\ Len(returncodes) = Len(cmds)

C14_Witness ==
    /\ Exited
    /\ exit_code = 0
    /\ \A e \in StageEvents : Has(e)
    /\ Programs = <<"ffmpeg", "whisper">>

\* <out_dir>/<stem><ext>, where move_whisper_outputs puts ./<stem><ext>.
RelocationDest(ext) == Join(out_dir, stem(video_base[2]) \o ext)

\* C15: relocation never silently overwrites a file that was already in the
\* output directory: a file <out_dir>/<stem><ext> (ext in .srt, .json, .tsv,
\* .txt, .vtt) that existed before the run is still there with the content it
\* had.
C15_RelocationKeepsExistingFiles ==
    "out_dir" \in bound
        => \A ext \in ExtSet :
             Exists(fs0, RelocationDest(ext))
                => /\ Exists(fs, RelocationDest(ext))
                   /\ fs[RelocationDest(ext)] = fs0[RelocationDest(ext)]

\* C16: a failure of a single file move or delete in Relocate, Cleanup or
\* Finalize never aborts the run: the other extensions are still relocated,
\* the later stages still execute, the process ends with exit code 0, and
\* when the move of the video fails the video stays where it was and that
\* path is the one reported.
C16_MoveOrDeleteFailureNeverAborts ==
    faults > 0
        => /\ Has("relocate")
                => Cardinality(RelocationSources(fs, video_base)) <= faults
           /\ Exited
                => /\ exit_code = 0
                   /\ "reported" \in bound
                   /\ Has("finalize")
                   /\ ~Has("skip") => (Has("relocate") /\ Has("cleanup"))
           /\ Has("move_video_failed")
                => /\ Exists(fs, args.video)
                   /\ fs[args.video] = fs0[args.video]
                   /\ "reported" \in bound => reported.video = args.video

\* One extension could not be relocated; the run went on to the end.
C16_Witness ==
    /\ Exited
    /\ exit_code = 0
    /\ faults > 0
    /\ Cardinality(RelocationSources(fs, video_base)) = faults
    /\ Exists(fs, Join(out_dir, stem(video_base[2]) \o <<Dot, "vtt">>))

\* The files the interrupted subprocess may have been writing.
SubprocessOutputs(w) ==
    {w} \cup {whisper_output(w, ext) : ext \in ExtSet}

\* C17: an interrupt at any point of the run (in a prompt, during ffmpeg or
\* whisper, between two stages) ends it with exit code 1 and rolls nothing
\* back: every directory and every file there was is still there, with its
\* content unless the interrupted tool was writing it.
C17_InterruptExitsOneKeepsEffects ==
    [][ (~Has("interrupt") /\ Has("interrupt")')
            => /\ pc' = "exit"
               /\ exit_code' = 1
               /\ dirs' = dirs
               /\ \A p \in DOMAIN fs :
                    /\ p \in DOMAIN fs'
                    /\ \/ fs'[p] = fs[p]
                       \/ p \in SubprocessOutputs(wav) \cup SubprocessOutputs(wav_v1) ]_vars

\* Interrupted during whisper, in the latest version: the output directory and
\* the extracted audio are still there.
C17_Witness ==
    /\ Has("interrupt")
    /\ Has("mkdir")
    /\ Programs = <<"ffmpeg", "whisper">>
    /\ Exists(fs, wav) /\ fs[wav] = "audio"
    /\ out_dir \in dirs
    /\ exit_code = 1

\* The audio file of the run: <out_dir>/<stem>.wav in the latest version,
\* the .wav beside the video in the first one.
AudioPath == IF "out_dir" \in bound THEN wav ELSE wav_v1

\* C18: the command run_whisper starts is exactly: whisper, the audio path,
\* --model <model>, --task translate if the translate flag is set and --task
\* transcribe otherwise, followed by --language <code> if and only if a
\* non-empty language is set.
C18_WhisperCommandLine ==
    \A i \in DOMAIN cmds :
        Program(cmds[i]) = "whisper"
            => LET cmd  == cmds[i]
                   head == << <<"whisper">>, StrPath(AudioPath),
                              <<"--model">>, <<model>>, <<"--task">>,
                              << IF translate_to_en THEN "translate" ELSE "transcribe" >> >>
               IN  IF language \in {None, ""}
                   THEN cmd = head
                   ELSE cmd = head \o << <<"--language">>, <<language>> >>

\* whisper started for a translation with --language "" on the command line.
C18_Witness ==
    /\ \E i \in DOMAIN cmds :
         Program(cmds[i]) = "whisper" /\ cmds[i][Len(cmds[i])] = <<"translate">>
    /\ language = ""
    /\ translate_to_en

Started(program) == {i \in DOMAIN cmds : Program(cmds[i]) = program}

\* C19: within one run of any version each external tool is started at most
\* once, and whisper is started only in a run in which ffmpeg was started
\* before it and ended with exit code 0.
C19_EachToolAtMostOnce ==
    /\ Cardinality(Started("ffmpeg")) <= 1
    /\ Cardinality(Started("whisper")) <= 1
    /\ \A i \in Started("whisper") :
         \E j \in Started("ffmpeg") : j < i /\ returncodes[j] = 0

\* A run of the first version to its end, in which whisper failed and was not
\* started again.
C19_Witness ==
    /\ Exited
    /\ "out_dir" \notin bound
    /\ "reported" \in bound
    /\ Programs = <<"ffmpeg", "whisper">>
    /\ returncodes = <<0, 1>>

\* An earlier run on the same command line moved the video into the output
\* directory.
MovedBefore ==
    \E k \in DOMAIN history :
        \E i \in DOMAIN history[k].events : history[k].events[i] = "move_video"

\* C20: once a run has completed Finalize with a successful move, the source
\* file is no longer at the path of the argument, so a later run with the same
\* argument ends with exit code 1 at the input check, starts no external tool
\* and never reaches the skip-if-exists decision.
C20_SecondRunStopsAtInputCheck ==
    MovedBefore
        => /\ ~Exists(fs, args.video)
           /\ pc \in {"start", "exit"}
           /\ Exited => exit_code = 1
           /\ cmds = <<>>
           /\ events = <<>>
           /\ bound = {}

C20_Witness ==
    /\ MovedBefore
    /\ history[1].exit_code = 0
    /\ Exited
    /\ exit_code = 1

----------------------------------------------------------------------------
(* C21 - C23 *)

\* process_video has returned through the skip branch and main has not yet
\* moved the video.
ReturnedFromSkip == pc = "finalize" /\ Has("skip")

\* C21: when process_video takes the skip path it leaves the file system as it
\* was: no file created, no working-directory output relocated into the output
\* directory, the intermediate .wav not deleted even when the clean flag is
\* true.  (Nothing before process_video writes a file, so the files are those
\* of the process start.)
C21_SkipPathLeavesFilesAlone ==
    ReturnedFromSkip
        => /\ fs = fs0
           /\ cmds = <<>>
           /\ \A i \in DOMAIN events :
                events[i] \notin {"relocate", "cleanup", "unlink", "unlink_failed"}

\* The skip path taken with the clean flag true, a .wav in the output
\* directory and a transcript in the working directory.
C21_Witness ==
    /\ ReturnedFromSkip
    /\ clean_wav
    /\ Exists(fs, wav)
    /\ RelocationSources(fs, video_base) # {}

\* The finalize destination <out_dir>/<video name> is the source file itself.
InPlace == "out_dir" \in bound /\ args.video[1] = out_dir

\* <out_dir>/<stem>_<i><suffix>
Renamed(i) ==
    Join(out_dir, stem(args.video[2]) \o <<"_", ToString(i)>> \o suffix(args.video[2]))

\* The video was moved to <out_dir>/<stem>_<i><suffix>, i the smallest index
\* from 1 whose name was unused, and is no longer where it was.
RenamedToSmallestFree ==
    /\ ~Exists(fs, args.video)
    /\ \E i \in 1..(Cardinality(DOMAIN fs0) + 1) :
         /\ result.video = Renamed(i)
         /\ Exists(fs, Renamed(i))
         /\ fs[Renamed(i)] = fs0[args.video]
         /\ ~Exists(fs0, Renamed(i))
         /\ \A k \in 1..(i - 1) : Exists(fs0, Renamed(k))

\* This run was started on the file an earlier run had renamed.
OnRenamedFile ==
    /\ Len(history) > 0
    /\ history[Len(history)].video[2] # args.video[2]

\* C22 as stated: a video that lies in the output directory under its own name
\* is renamed by Finalize to <stem>_<i><suffix>, i the smallest unused index
\* from 1, and every further run on the renamed file changes the name of the
\* video again.
C22_EveryFurtherRunRenames ==
    Has("move_video")
        => /\ InPlace => RenamedToSmallestFree
           /\ OnRenamedFile => result.video[2] # args.video[2]

\* C22 as amended: a video that lies in the output directory under its own
\* name is renamed by Finalize to <stem>_<i><suffix>, i the smallest unused
\* index from 1; a further run on the renamed file changes the name again
\* exactly when its output directory already holds a file of that name, as it
\* does when the output directory is the one the file lies in.
C22_RenamedWhenDestinationTaken ==
    Has("move_video")
        => /\ InPlace => RenamedToSmallestFree
           /\ OnRenamedFile
                => /\ result.video[2] # args.video[2]
                      <=> Exists(fs0, Join(out_dir, args.video[2]))
                   /\ InPlace => Exists(fs0, Join(out_dir, args.video[2]))

\* A second run, on the renamed file and into the folder it lies in, has
\* renamed it again.
C22_Witness ==
    /\ Has("move_video")
    /\ OnRenamedFile
    /\ InPlace
    /\ result.video[2] # args.video[2]
    /\ Exists(fs, result.video)

BothRun == twin.started /\ twin.fr # NotRun /\ twin.en # NotRun

\* C23: given the same arguments, prompt answers, tool availability and
\* subprocess exit codes, with rich importable or not, gen_subs.py and
\* gen_subs_EN.py start the same external commands and delete the same .wav,
\* in the same order, and end with the same exit code.
C23_SameToolsDeletionsAndExitCode ==
    BothRun => twin.fr = twin.en

\* The same comparison where rich cannot be imported.
SameWithoutRich ==
    (BothRun /\ ~twin.in.rich) => twin.fr = twin.en

====
